---- MODULE Spec2Model ----
(***************************************************************************)
(* Model of the clerk-agent backend (src/backend/main.py): two record      *)
(* tables behind a SQLAlchemy session, the certificate PDF written under   *)
(* certificates/, and the chat proxy to the remote completion API.         *)
(* Requests are served concurrently (FastAPI runs each sync handler in a   *)
(* worker thread); every storage round trip, file-system call and remote   *)
(* call is one step of the client's request.                               *)
(***************************************************************************)
EXTENDS Integers, Sequences, FiniteSets, TLC

VARIABLES db, files, op, pc, arg, obj, resp, returned

vars == <<db, files, op, pc, arg, obj, resp, returned>>

\* Rows a table may hold in the model (bounds the submit handlers).
MaxRows == 2

\* Concurrent requests in flight (HTTP clients of the service).
Clients == {"c1", "c2"}

\* ---------------------------------------------------------------- schema

LeaveFields == {"employee_id", "leave_type", "start_date", "end_date", "reason"}

CertFields == {"student_id", "certificate_type"}

\* Request bodies offered to POST /request_leave/: a complete body and one
\* that lacks a required field.
LeaveBodies ==
    { [employee_id |-> "E1", leave_type |-> "Sick", start_date |-> "2024-01-01",
       end_date |-> "2024-01-03", reason |-> "flu"],
      [employee_id |-> "E1", leave_type |-> "Sick"] }

\* Request bodies offered to POST /generate_certificate/.
CertBodies ==
    { [student_id |-> "S1", certificate_type |-> "Bonafide"],
      [student_id |-> "S2", certificate_type |-> "NOC"],
      [student_id |-> "S1"] }

\* pydantic: LeaveRequest requires its five string fields.
LeaveRequest(body) == DOMAIN body = LeaveFields

\* pydantic: CertificateRequest requires its two string fields.
CertificateRequest(body) == DOMAIN body = CertFields

\* ---------------------------------------------------------------- store

Ids(table) == { table[i].id : i \in 1..Len(table) }

Rows(table) == { table[i] : i \in 1..Len(table) }

MaxOf(S) == IF S = {} THEN 0 ELSE CHOOSE m \in S : \A x \in S : x <= m

\* Faulty generator: hands out the highest identifier in use again.
NextIdReused(table) == IF table = <<>> THEN 1 ELSE MaxOf(Ids(table))

\* Integer primary key: the store generates the next identifier.
NextId(table) == MaxOf(Ids(table)) + 1

\* LeaveRequestDB(**leave.dict()) / CertificateRequestDB(**cert.dict()):
\* the row carries the body's fields and the generated identifier.
Entry(id, body) == [id |-> id] @@ body

\* Faulty insert: writes over the newest row instead of adding one.
InsertOverwrite(table, id, body) ==
    IF table = <<>> THEN <<Entry(id, body)>>
    ELSE [table EXCEPT ![Len(table)] = Entry(id, body)]

\* db.add(entry); db.commit(): INSERT of one row.
Insert(table, id, body) == Append(table, Entry(id, body))

\* After commit the ORM object keeps its identity only (attributes expired).
Expired(id) == [id |-> id]

\* Faulty refresh: the expired object is handed back without reloading.
RefreshSkipped(table, entry) == entry

\* db.refresh(entry): reload the attributes of the row with that identity.
Refresh(table, entry) == CHOOSE row \in Rows(table) : row.id = entry.id

\* db.query(Model).all()
QueryAll(table) == table

\* Faulty lookup: the filter on the identifier is dropped.
QueryFirstUnfiltered(table, id) == SubSeq(table, 1, IF Len(table) > 0 THEN 1 ELSE 0)

\* db.query(Model).filter(Model.id == id).first(): a sequence of 0 or 1 row.
QueryFirst(table, id) == SelectSeq(table, LAMBDA row : row.id = id)

\* ---------------------------------------------------------------- responses

NoObj == [id |-> 0]

NoResp == [status |-> 0]

\* An exception of the storage driver escapes the handler: HTTP 500.
ServerError(what) == [status |-> 500, error |-> what]

Init ==
    /\ db = [leave_requests |-> <<>>, certificates |-> <<>>]
    /\ files = <<>>
    /\ op = [c \in Clients |-> "none"]
    /\ pc = [c \in Clients |-> "idle"]
    /\ arg = [c \in Clients |-> <<>>]
    /\ obj = [c \in Clients |-> NoObj]
    /\ resp = [c \in Clients |-> NoResp]
    /\ returned = [leave_requests |-> <<>>, certificates |-> <<>>]

\* ---------------------------------------------------------------- helpers

Reply(c, r) ==
    /\ resp' = [resp EXCEPT ![c] = r]
    /\ pc' = [pc EXCEPT ![c] = "done"]

\* Requests of handler o that have not yet inserted their row.
Pending(o) == { d \in Clients : op[d] = o /\ pc[d] = "commit" }

\* ---------------------------------------------------------------- POST /request_leave/

\* The request arrives; FastAPI validates the body against LeaveRequest and
\* answers 422 without entering the handler when a field is missing.
call_request_leave(c) ==
    /\ pc[c] = "idle"
    /\ \E body \in LeaveBodies :
         \/ /\ LeaveRequest(body)
            /\ Len(db.leave_requests) + Cardinality(Pending("request_leave")) < MaxRows
            /\ op' = [op EXCEPT ![c] = "request_leave"]
            /\ arg' = [arg EXCEPT ![c] = body]
            /\ pc' = [pc EXCEPT ![c] = "commit"]
            /\ UNCHANGED resp
         \/ /\ ~LeaveRequest(body)
            /\ op' = [op EXCEPT ![c] = "request_leave"]
            /\ arg' = [arg EXCEPT ![c] = body]
            /\ Reply(c, [status |-> 422, detail |-> "field required"])
    /\ UNCHANGED <<db, files, obj>>

\* leave_entry = LeaveRequestDB(**leave.dict()); db.add(leave_entry); db.commit()
\* Either the row is inserted, or the storage call raises and FastAPI answers 500.
request_leave_commit(c) ==
    /\ op[c] = "request_leave" /\ pc[c] = "commit"
    /\ \/ /\ db' = [db EXCEPT !.leave_requests =
                       Insert(@, NextId(@), arg[c])]
          /\ obj' = [obj EXCEPT ![c] = Expired(NextId(db.leave_requests))]
          /\ pc' = [pc EXCEPT ![c] = "refresh"]
          /\ UNCHANGED resp
       \/ /\ Reply(c, ServerError("commit"))
          /\ UNCHANGED <<db, obj>>
    /\ UNCHANGED <<files, op, arg>>

\* db.refresh(leave_entry); return {"message": ..., "data": leave_entry}
\* The reload is a second storage round trip and may raise as well.
request_leave_refresh(c) ==
    /\ op[c] = "request_leave" /\ pc[c] = "refresh"
    /\ \/ LET leave_entry == Refresh(db.leave_requests, obj[c]) IN
          /\ obj' = [obj EXCEPT ![c] = leave_entry]
          /\ Reply(c, [status |-> 200,
                       message |-> "Leave request submitted successfully",
                       data |-> leave_entry])
       \/ /\ Reply(c, ServerError("refresh"))
          /\ UNCHANGED obj
    /\ UNCHANGED <<db, files, op, arg>>

\* ---------------------------------------------------------------- GET /leave_requests/

call_get_leave_requests(c) ==
    /\ pc[c] = "idle"
    /\ op' = [op EXCEPT ![c] = "get_leave_requests"]
    /\ pc' = [pc EXCEPT ![c] = "query"]
    /\ UNCHANGED <<db, files, arg, obj, resp>>

\* leaves = db.query(LeaveRequestDB).all(); return {"message": ..., "data": leaves}
get_leave_requests(c) ==
    /\ op[c] = "get_leave_requests" /\ pc[c] = "query"
    /\ \/ Reply(c, [status |-> 200,
                    message |-> "Leave requests retrieved successfully",
                    data |-> QueryAll(db.leave_requests)])
       \/ Reply(c, ServerError("query"))
    /\ UNCHANGED <<db, files, op, arg, obj>>

\* ---------------------------------------------------------------- POST /generate_certificate/

call_generate_certificate(c) ==
    /\ pc[c] = "idle"
    /\ \E body \in CertBodies :
         \/ /\ CertificateRequest(body)
            /\ Len(db.certificates) + Cardinality(Pending("generate_certificate")) < MaxRows
            /\ op' = [op EXCEPT ![c] = "generate_certificate"]
            /\ arg' = [arg EXCEPT ![c] = body]
            /\ pc' = [pc EXCEPT ![c] = "commit"]
            /\ UNCHANGED resp
         \/ /\ ~CertificateRequest(body)
            /\ op' = [op EXCEPT ![c] = "generate_certificate"]
            /\ arg' = [arg EXCEPT ![c] = body]
            /\ Reply(c, [status |-> 422, detail |-> "field required"])
    /\ UNCHANGED <<db, files, obj>>

\* cert_entry = CertificateRequestDB(**cert.dict()); db.add(cert_entry); db.commit()
generate_certificate_commit(c) ==
    /\ op[c] = "generate_certificate" /\ pc[c] = "commit"
    /\ \/ /\ db' = [db EXCEPT !.certificates = Insert(@, NextId(@), arg[c])]
          /\ obj' = [obj EXCEPT ![c] = Expired(NextId(db.certificates))]
          /\ pc' = [pc EXCEPT ![c] = "refresh"]
          /\ UNCHANGED resp
       \/ /\ Reply(c, ServerError("commit"))
          /\ UNCHANGED <<db, obj>>
    /\ UNCHANGED <<files, op, arg>>

\* db.refresh(cert_entry); return {"message": ..., "certificate": cert_entry}
generate_certificate_refresh(c) ==
    /\ op[c] = "generate_certificate" /\ pc[c] = "refresh"
    /\ \/ LET cert_entry == Refresh(db.certificates, obj[c]) IN
          /\ obj' = [obj EXCEPT ![c] = cert_entry]
          /\ Reply(c, [status |-> 200,
                       message |-> "Certificate request submitted successfully",
                       certificate |-> cert_entry])
       \/ /\ Reply(c, ServerError("refresh"))
          /\ UNCHANGED obj
    /\ UNCHANGED <<db, files, op, arg>>

\* ---------------------------------------------------------------- GET /certificates/

call_get_certificates(c) ==
    /\ pc[c] = "idle"
    /\ op' = [op EXCEPT ![c] = "get_certificates"]
    /\ pc' = [pc EXCEPT ![c] = "query"]
    /\ UNCHANGED <<db, files, arg, obj, resp>>

\* certs = db.query(CertificateRequestDB).all(); return {"message": ..., "data": certs}
get_certificates(c) ==
    /\ op[c] = "get_certificates" /\ pc[c] = "query"
    /\ \/ Reply(c, [status |-> 200,
                    message |-> "Certificates retrieved successfully",
                    data |-> QueryAll(db.certificates)])
       \/ Reply(c, ServerError("query"))
    /\ UNCHANGED <<db, files, op, arg, obj>>

\* ---------------------------------------------------------------- GET /download_certificate/{certificate_id}

\* Identifiers a client may ask for: issued ones and one beyond them.
CertificateIds == 1..(MaxRows + 1)

\* The two centred lines of the page: pdf.cell(... f"Certificate of {type}"),
\* pdf.cell(... f"Issued to: {student_id}").
Pdf(cert) == << <<"Certificate of", cert.certificate_type>>,
                <<"Issued to:", cert.student_id>> >>

\* open(file_path, "wb") creates the file or truncates it to zero length.
Truncate(fs, path) == (path :> <<>>) @@ fs

\* f.write(buffer); f.close()
Write(fs, path, content) == (path :> content) @@ fs

call_download_certificate(c) ==
    /\ pc[c] = "idle"
    /\ \E certificate_id \in CertificateIds :
         arg' = [arg EXCEPT ![c] = certificate_id]
    /\ op' = [op EXCEPT ![c] = "download_certificate"]
    /\ pc' = [pc EXCEPT ![c] = "query"]
    /\ UNCHANGED <<db, files, obj, resp>>

\* cert = db.query(...).filter(id == certificate_id).first()
\* if not cert: raise HTTPException(404, "Certificate not found")
download_certificate_query(c) ==
    /\ op[c] = "download_certificate" /\ pc[c] = "query"
    /\ \/ LET cert == QueryFirst(db.certificates, arg[c]) IN
          IF cert = <<>>
          THEN /\ Reply(c, [status |-> 404, detail |-> "Certificate not found"])
               /\ UNCHANGED obj
          ELSE /\ obj' = [obj EXCEPT ![c] = cert[1]]
               /\ pc' = [pc EXCEPT ![c] = "truncate"]
               /\ UNCHANGED resp
       \/ /\ Reply(c, ServerError("query"))
          /\ UNCHANGED obj
    /\ UNCHANGED <<db, files, op, arg>>

\* file_path = f"certificates/certificate_{certificate_id}.pdf"
\* os.makedirs("certificates", exist_ok=True)
\* pdf.output(file_path), first half: the file is opened for writing.
download_certificate_truncate(c) ==
    /\ op[c] = "download_certificate" /\ pc[c] = "truncate"
    /\ files' = Truncate(files, arg[c])
    /\ pc' = [pc EXCEPT ![c] = "write"]
    /\ UNCHANGED <<db, op, arg, obj, resp>>

\* pdf.output(file_path), second half: the page is written and the file closed.
download_certificate_write(c) ==
    /\ op[c] = "download_certificate" /\ pc[c] = "write"
    /\ files' = Write(files, arg[c], Pdf(obj[c]))
    /\ pc' = [pc EXCEPT ![c] = "stream"]
    /\ UNCHANGED <<db, op, arg, obj, resp>>

\* return StreamingResponse(open(file_path, "rb"), ...): the body is what the
\* file holds when the response is streamed.
download_certificate_stream(c) ==
    /\ op[c] = "download_certificate" /\ pc[c] = "stream"
    /\ Reply(c, [status |-> 200, media_type |-> "application/pdf",
                 filename |-> arg[c], body |-> files[arg[c]]])
    /\ UNCHANGED <<db, files, op, arg, obj>>

\* ---------------------------------------------------------------- POST /generate-response/

Choice(text) == [message |-> [role |-> "assistant", content |-> text]]

\* What the completion API may answer: a status code and a body, which is
\* JSON (field json holds the decoded object) or not.
RemoteStatus == {200, 401, 502}

RemoteBodies ==
    { [text |-> "one", json |-> [choices |-> <<Choice("Hello")>>]],
      [text |-> "two", json |-> [choices |-> <<Choice("Hi"), Choice("Bye")>>]],
      [text |-> "none", json |-> [choices |-> <<>>]],
      [text |-> "error", json |-> [message |-> "Unauthorized"]],
      [text |-> "<html>Bad Gateway</html>"] }

ChatMessages == { << [role |-> "user", content |-> "hello"] >> }

\* response.json() succeeds only on a JSON body.
IsJson(body) == "json" \in DOMAIN body

\* Faulty extraction: takes the last completion instead of the first.
AiMessageLast(response_json) ==
    IF "choices" \in DOMAIN response_json /\ Len(response_json.choices) > 0
    THEN response_json.choices[Len(response_json.choices)].message.content
    ELSE "No response from Mistral."

\* if "choices" in response_json and len(response_json["choices"]) > 0: ...
AiMessage(response_json) ==
    IF "choices" \in DOMAIN response_json /\ Len(response_json.choices) > 0
    THEN response_json.choices[1].message.content
    ELSE "No response from Mistral."

\* The handler's outcome for a remote response; response.json() raises on a
\* body that is not JSON, which FastAPI answers with 500.
GenerateResponse(response) ==
    IF response.status_code # 200
    THEN IF IsJson(response.body)
         THEN [status |-> response.status_code, detail |-> response.body.json]
         ELSE ServerError("JSONDecodeError")
    ELSE IF IsJson(response.body)
         THEN [status |-> 200, response |-> AiMessage(response.body.json)]
         ELSE ServerError("JSONDecodeError")

call_generate_response(c) ==
    /\ pc[c] = "idle"
    /\ \E messages \in ChatMessages : arg' = [arg EXCEPT ![c] = messages]
    /\ op' = [op EXCEPT ![c] = "generate_response"]
    /\ pc' = [pc EXCEPT ![c] = "post"]
    /\ UNCHANGED <<db, files, obj, resp>>

\* response = requests.post(...); the rest of the handler is local.
generate_response(c) ==
    /\ op[c] = "generate_response" /\ pc[c] = "post"
    /\ \E status_code \in RemoteStatus, body \in RemoteBodies :
         LET response == [status_code |-> status_code, body |-> body] IN
         /\ obj' = [obj EXCEPT ![c] = response]
         /\ Reply(c, GenerateResponse(response))
    /\ UNCHANGED <<db, files, op, arg>>

\* ---------------------------------------------------------------- system

\* The client has read the response; the connection serves its next request.
Deliver(c) ==
    /\ pc[c] = "done"
    /\ pc' = [pc EXCEPT ![c] = "idle"]
    /\ op' = [op EXCEPT ![c] = "none"]
    /\ arg' = [arg EXCEPT ![c] = <<>>]
    /\ obj' = [obj EXCEPT ![c] = NoObj]
    /\ resp' = [resp EXCEPT ![c] = NoResp]
    /\ UNCHANGED <<db, files>>

\* One step of one request; the history variable is left alone.
Next ==
    \E c \in Clients :
       \/ call_request_leave(c) /\ UNCHANGED returned
       \/ request_leave_commit(c) /\ UNCHANGED returned
       \/ request_leave_refresh(c) /\ UNCHANGED returned
       \/ call_get_leave_requests(c) /\ UNCHANGED returned
       \/ get_leave_requests(c) /\ UNCHANGED returned
       \/ call_generate_certificate(c) /\ UNCHANGED returned
       \/ generate_certificate_commit(c) /\ UNCHANGED returned
       \/ generate_certificate_refresh(c) /\ UNCHANGED returned
       \/ call_get_certificates(c) /\ UNCHANGED returned
       \/ get_certificates(c) /\ UNCHANGED returned
       \/ call_download_certificate(c) /\ UNCHANGED returned
       \/ download_certificate_query(c) /\ UNCHANGED returned
       \/ download_certificate_truncate(c) /\ UNCHANGED returned
       \/ download_certificate_write(c) /\ UNCHANGED returned
       \/ download_certificate_stream(c) /\ UNCHANGED returned
       \/ call_generate_response(c) /\ UNCHANGED returned
       \/ generate_response(c) /\ UNCHANGED returned
       \/ Deliver(c) /\ UNCHANGED returned

Spec == Init /\ [][Next]_vars

\* ---------------------------------------------------------------- history

SubmitOps == {"request_leave", "generate_certificate"}

ReadOps == {"get_leave_requests", "get_certificates", "download_certificate"}

Tables == {"leave_requests", "certificates"}

\* The table a submit handler writes.
TableOf(o) == IF o = "request_leave" THEN "leave_requests" ELSE "certificates"

\* The record in a submit's 200 response ("data" for leaves, "certificate"
\* for certificates).
Data(r) == IF "data" \in DOMAIN r THEN r.data ELSE r.certificate

\* returned[t] lists, in order, the records that successful submits of table
\* t have handed back to their callers.
Record(c) ==
    returned' = IF resp'[c].status = 200
                THEN [returned EXCEPT ![TableOf(op[c])] = Append(@, Data(resp'[c]))]
                ELSE returned

\* The same steps, with the history of successful submits recorded.
HistNext ==
    \E c \in Clients :
       \/ call_request_leave(c) /\ UNCHANGED returned
       \/ request_leave_commit(c) /\ UNCHANGED returned
       \/ request_leave_refresh(c) /\ Record(c)
       \/ call_get_leave_requests(c) /\ UNCHANGED returned
       \/ get_leave_requests(c) /\ UNCHANGED returned
       \/ call_generate_certificate(c) /\ UNCHANGED returned
       \/ generate_certificate_commit(c) /\ UNCHANGED returned
       \/ generate_certificate_refresh(c) /\ Record(c)
       \/ call_get_certificates(c) /\ UNCHANGED returned
       \/ get_certificates(c) /\ UNCHANGED returned
       \/ call_download_certificate(c) /\ UNCHANGED returned
       \/ download_certificate_query(c) /\ UNCHANGED returned
       \/ download_certificate_truncate(c) /\ UNCHANGED returned
       \/ download_certificate_write(c) /\ UNCHANGED returned
       \/ download_certificate_stream(c) /\ UNCHANGED returned
       \/ call_generate_response(c) /\ UNCHANGED returned
       \/ generate_response(c) /\ UNCHANGED returned
       \/ Deliver(c) /\ UNCHANGED returned

HistSpec == Init /\ [][HistNext]_vars

\* ---------------------------------------------------------------- properties

\* A submit of c that has answered 200.
Submitted(c) == op[c] \in SubmitOps /\ pc[c] = "done" /\ resp[c].status = 200

\* A download of c that has answered.
Downloaded(c) == op[c] = "download_certificate" /\ pc[c] = "done"

\* A chat request of c that has answered.
Chatted(c) == op[c] = "generate_response" /\ pc[c] = "done"

\* Submits of handler o between their insert and their answer.
InFlight(o) == { d \in Clients : op[d] = o /\ pc[d] \in {"commit", "refresh"} }

\* C1: identifiers are unique within a table: no two rows of a table share
\* an identifier, the identifier a submit returns names exactly one row of
\* its table, and two submits of the same kind never return the same one.
C1_UniqueIdentifiers ==
    /\ \A t \in Tables : \A i, j \in 1..Len(db[t]) :
          i # j => db[t][i].id # db[t][j].id
    /\ \A c \in Clients : Submitted(c) =>
          Cardinality({ i \in 1..Len(db[TableOf(op[c])]) :
                          db[TableOf(op[c])][i].id = Data(resp[c]).id }) = 1
    /\ \A c, d \in Clients :
          (c # d /\ Submitted(c) /\ Submitted(d) /\ op[c] = op[d])
             => Data(resp[c]).id # Data(resp[d]).id

\* Two leave submits have returned while a certificate exists as well.
C1_Witness ==
    /\ \A c \in Clients : Submitted(c) /\ op[c] = "request_leave"
    /\ Len(db.leave_requests) = 2
    /\ Len(db.certificates) >= 1

\* C8: a successful submit returns the persisted row: the submitted fields
\* unchanged plus the generated identifier; the first row of a table has
\* identifier 1.
C8_SubmitEchoesRecord ==
    /\ \A c \in Clients : Submitted(c) =>
          /\ Data(resp[c]) = Entry(Data(resp[c]).id, arg[c])
          /\ Data(resp[c]) \in Rows(db[TableOf(op[c])])
          /\ DOMAIN Data(resp[c]) = DOMAIN arg[c] \cup {"id"}
          /\ \A f \in DOMAIN arg[c] : Data(resp[c])[f] = arg[c][f]
    /\ \A t \in Tables : Len(db[t]) >= 1 => db[t][1].id = 1

\* The first leave and a certificate have both been returned with their fields.
C8_Witness ==
    \E c, d \in Clients :
       /\ Submitted(c) /\ op[c] = "request_leave"
       /\ resp[c].data.id = 1 /\ resp[c].data.reason = "flu"
       /\ Submitted(d) /\ op[d] = "generate_certificate"
       /\ resp[d].certificate.certificate_type = "NOC"

\* C5: no step removes or changes a row: every row of a table is still at
\* its place, with the same identifier and fields, after any step.
C5_RecordsPermanent ==
    [][\A t \in Tables : \A i \in 1..Len(db[t]) :
          Len(db'[t]) >= i /\ db'[t][i] = db[t][i]]_vars

\* Both tables hold rows, and a download and a chat request have completed.
C5_Witness ==
    /\ Len(db.certificates) = 2 /\ Len(db.leave_requests) = 2
    /\ \E c, d \in Clients :
          /\ Downloaded(c) /\ resp[c].status = 200
          /\ Chatted(d)

\* C3 as stated: a download of an identifier that no certificate carries
\* answers 404 and leaves no document.
C3_NeverIssuedIsNotFound ==
    \A c \in Clients :
       (Downloaded(c) /\ arg[c] \notin Ids(db.certificates))
          => /\ resp[c].status = 404
             /\ arg[c] \notin DOMAIN files

\* C3, amended: such a download never yields a document; it answers 404
\* when the lookup completes and 500 when the lookup itself raises.
C3_NeverIssuedNoDocument ==
    \A c \in Clients :
       (Downloaded(c) /\ arg[c] \notin Ids(db.certificates))
          => /\ resp[c] \in { [status |-> 404, detail |-> "Certificate not found"],
                              ServerError("query") }
             /\ "body" \notin DOMAIN resp[c]
             /\ arg[c] \notin DOMAIN files

\* A download of an identifier that only a leave request carries answered 404.
C3_Witness ==
    \E c \in Clients :
       /\ Downloaded(c) /\ resp[c].status = 404
       /\ arg[c] \in Ids(db.leave_requests)
       /\ arg[c] \notin Ids(db.certificates)
       /\ db.certificates # <<>>

\* C4 as stated: a step of a list or download request changes neither the
\* tables nor anything else that persists (the files under certificates/).
C4_ReadsChangeNothing ==
    [][(\E c \in Clients : op[c] \in ReadOps /\ pc'[c] # pc[c])
          => UNCHANGED <<db, files>>]_vars

\* C9 as stated: every download that answers 200 streams the complete
\* document of the requested record.
C9_CompleteDocument ==
    \A c \in Clients :
       (Downloaded(c) /\ resp[c].status = 200)
          => \E row \in Rows(db.certificates) :
                row.id = arg[c] /\ resp[c].body = Pdf(row)

\* C10 as stated: a submit that answered with an error has left no row
\* behind.
C10_FailedSubmitAddsNothing ==
    \A c \in Clients :
       (op[c] \in SubmitOps /\ pc[c] = "done" /\ resp[c].status # 200)
          => obj[c].id \notin Ids(db[TableOf(op[c])])

\* C2 as stated: a list answered while no submit of its kind is in flight
\* returns exactly the records the successful submits of that kind returned.
C2_ListMatchesSubmits ==
    [][\A c \in Clients :
          /\ (/\ op[c] = "get_leave_requests" /\ pc[c] = "query"
              /\ resp'[c].status = 200
              /\ InFlight("request_leave") = {})
                => /\ Len(resp'[c].data) = Len(returned.leave_requests)
                   /\ Rows(resp'[c].data) = Rows(returned.leave_requests)
          /\ (/\ op[c] = "get_certificates" /\ pc[c] = "query"
              /\ resp'[c].status = 200
              /\ InFlight("generate_certificate") = {})
                => /\ Len(resp'[c].data) = Len(returned.certificates)
                   /\ Rows(resp'[c].data) = Rows(returned.certificates)]_vars

\* The remote response has at least one completion.
HasCompletion(response_json) ==
    "choices" \in DOMAIN response_json /\ response_json.choices # <<>>

\* C6: on remote status 200 the reply is the first completion's text when
\* there is a completion, and the fixed fallback text when there is none.
C6_ReplyIsFirstCompletion ==
    \A c \in Clients :
       (Chatted(c) /\ obj[c].status_code = 200 /\ IsJson(obj[c].body))
          => /\ resp[c].status = 200
             /\ DOMAIN resp[c] = {"status", "response"}
             /\ HasCompletion(obj[c].body.json)
                   => resp[c].response = Head(obj[c].body.json.choices).message.content
             /\ ~HasCompletion(obj[c].body.json)
                   => resp[c].response = "No response from Mistral."

\* One chat answered with the first of two completions, another with the
\* fallback for a body without the completions field.
C6_Witness ==
    \E c, d \in Clients :
       /\ Chatted(c) /\ obj[c].status_code = 200 /\ obj[c].body.text = "two"
       /\ resp[c].response = "Hi"
       /\ Chatted(d) /\ obj[d].status_code = 200 /\ obj[d].body.text = "error"
       /\ resp[d].response = "No response from Mistral."

\* C7 as stated: on a remote status other than 200 the call fails with the
\* remote status and the remote body, whatever the body is.
C7_UpstreamErrorCarriesStatus ==
    \A c \in Clients :
       (Chatted(c) /\ obj[c].status_code # 200)
          => /\ resp[c].status = obj[c].status_code
             /\ "detail" \in DOMAIN resp[c]
             /\ resp[c].detail = IF IsJson(obj[c].body) THEN obj[c].body.json
                                 ELSE obj[c].body.text

====
